---- MODULE Spec2Model ----
(***************************************************************************)
(* Model of src/app/main.py: the STU-OA monitor API.                       *)
(*                                                                         *)
(* One process-wide TaskState object (`state`) is shared by four request   *)
(* handlers (start_task, get_status, submit_otp, get_result) and by the    *)
(* background coroutine run_job.  Everything runs on one asyncio event     *)
(* loop, so code between two `await`s is atomic: each handler is one       *)
(* action (none of them awaits), and run_job is cut into one action per    *)
(* stretch of code between awaits that touches `state`.                    *)
(*                                                                         *)
(* Strings of the source are kept as strings; the Chinese message texts    *)
(* are written in English.  last_update is a wall-clock stamp that no      *)
(* handler reads and is left out.                                          *)
(***************************************************************************)
EXTENDS Integers, Sequences, FiniteSets, TLC

VARIABLES
    status,           \* state.status
    msg,              \* state.msg
    result_markdown,  \* state.result_markdown, as the sequence of joined lines
    otp_event,        \* state.otp_event: identity of the current asyncio.Event
    otp_value,        \* state.otp_value
    task,             \* state.task: 0 is None, j > 0 the task of the j-th accepted start
    fired,            \* fired[e]: asyncio.Event e is set
    flow,             \* flow[j]: locals and position of the j-th run_job coroutine
    njobs,            \* number of tasks created so far
    resp,             \* response of the last request handled
    writer,           \* history: who made the last update(): 0 a handler, j > 0 run_job j
    result_writer,    \* history: who stored result_markdown last
    otp_from,         \* history: value of state.task when otp_value was stored
    hist              \* hist[j]: history of the j-th job

vars == <<status, msg, result_markdown, otp_event, otp_value, task, fired, flow,
          njobs, resp, writer, result_writer, otp_from, hist>>

(***************************************************************************)
(* Bounds                                                                  *)
(***************************************************************************)
MaxJobs == 2
MaxItems == 2

Jobs == 1..MaxJobs
Events == 0..MaxJobs      \* event 0 is the one built by TaskState()

(***************************************************************************)
(* Request payloads                                                        *)
(***************************************************************************)
Usernames == {"", "u"}
Passwords == {"", "p"}
Otps == {"123", "1234", "123456789012", "1234567890123"}
Titles == {"exam", "talk"}

None == "<None>"

\* StartRequest: both fields have min_length = 1
StartRequest(username, password) == Len(username) >= 1 /\ Len(password) >= 1

\* a slip: the upper limit of the passcode length left out
OtpRequest_NoMax(otp) == Len(otp) >= 4

\* OtpRequest: min_length = 4, max_length = 12
OtpRequest(otp) == Len(otp) >= 4 /\ Len(otp) <= 12

(***************************************************************************)
(* Message texts                                                           *)
(***************************************************************************)
MsgIdle == "waiting for a task to start"
MsgInit == "initialising task..."
MsgOtpReceived == "passcode received, continuing..."
MsgLogin == "logging in to WebVPN..."
MsgWaitingOtp == "waiting for the dynamic passcode..."
MsgOtpTimeout == "dynamic passcode timed out"
MsgEnterOA == "entering the OA system..."
MsgScraping == "fetching the notice list..."
MsgSummarizing == "calling the AI summary..."
MsgDone == "briefing generated"
MsgRead(n) == "read " \o ToString(n) \o " notice details..."
MsgFailed(exc) == "task failed: " \o exc

\* str() of the exceptions the flow can raise
ExcTimeout == ""                       \* str(asyncio.TimeoutError())
ExcEnv == "missing environment variable"
ExcStage == "stage failed"
ExcNoItems == "no notices scraped"
ExcClose == "browser close failed"
NoExc == "<no exception>"

(***************************************************************************)
(* Summarizer                                                              *)
(***************************************************************************)
Record(t) == [title |-> t, department |-> "dept", date |-> "2024-01-01",
              content |-> "text"]

ItemLine(item) ==
    "- **" \o item.title \o "** (" \o item.department \o " / " \o item.date
           \o "): " \o item.content

\* a slip: the loop over the items stops one short
simulate_ai_summary_SkipsLast(items) ==
    <<"# OA summary of the month", "", "## Important">>
        \o [i \in 1..(Len(items) - 1) |-> ItemLine(items[i])]
        \o <<"\n## Other\n- none">>

\* the lines simulate_ai_summary joins with "\n"
simulate_ai_summary(items) ==
    <<"# OA summary of the month", "", "## Important">>
        \o [i \in 1..Len(items) |-> ItemLine(items[i])]
        \o <<"\n## Other\n- none">>

SeqsUpTo(S, n) == UNION {[1..k -> S] : k \in 0..n}

(***************************************************************************)
(* Initial state: TaskState() and no request handled yet                   *)
(***************************************************************************)
NoFlow == [pc |-> "none", event |-> 0, expired |-> FALSE, exc |-> NoExc,
           metadata |-> <<>>, items |-> <<>>]

NoHist == [raised |-> FALSE, accepted |-> "no", otp_read |-> None,
           otp_read_from |-> 0, timed_out |-> FALSE, set_done |-> FALSE,
           waits |-> 0, accepts |-> 0]

NoResp == [op |-> "none", code |-> 0, status |-> "", msg |-> "", markdown |-> <<>>]

Init ==
    /\ status = "idle"
    /\ msg = MsgIdle
    /\ result_markdown = <<>>
    /\ otp_event = 0
    /\ otp_value = None
    /\ task = 0
    /\ fired = [e \in Events |-> FALSE]
    /\ flow = [j \in Jobs |-> NoFlow]
    /\ njobs = 0
    /\ resp = NoResp
    /\ writer = 0
    /\ result_writer = 0
    /\ otp_from = 0
    /\ hist = [j \in Jobs |-> NoHist]

(***************************************************************************)
(* TaskState.update and the response a handler returns                     *)
(***************************************************************************)
\* a slip: the status written in one step and the message left for a later one
update_StatusFirst(s, m, w) ==
    /\ status' = s
    /\ msg' = msg
    /\ writer' = w

\* update(status, msg), called by w (0: a request handler, j: run_job j)
update(s, m, w) ==
    /\ status' = s
    /\ msg' = m
    /\ writer' = w

Response(op, code, s, m, md) ==
    [op |-> op, code |-> code, status |-> s, msg |-> m, markdown |-> md]

\* a slip: "no job is running" judged by the status instead of by the task
TaskActive_ByStatus == task # 0 /\ status \notin {"done", "error"}

\* state.task and not state.task.done()
TaskActive == task # 0 /\ flow[task].pc # "finished"

\* a slip: a passcode also taken while the job is processing
OtpExpected_AlsoProcessing == status \in {"waiting_otp", "processing"}

\* the guard of submit_otp
OtpExpected == status = "waiting_otp"

\* a slip: "a result exists" judged by the stored text instead of by the status
ResultReady_ByText == result_markdown # <<>>

\* the guard of get_result
ResultReady == status = "done"

\* a slip: start_task keeps the event of the job before
NewEvent_Reused(j) == otp_event

\* asyncio.Event(): a new object, unset, for the j-th task
NewEvent(j) == j

\* a slip: submit_otp stores the passcode and forgets to set the event
SetEvent_Forgotten(e) == fired

\* state.otp_event.set()
SetEvent(e) == [fired EXCEPT ![e] = TRUE]

(***************************************************************************)
(* Request handlers.  None of them awaits: each runs to its return.        *)
(***************************************************************************)
\* a slip: the response is built from the state as it was before the reset
start_task_StaleSnapshot(username, password) ==
    IF ~StartRequest(username, password)
    THEN /\ resp' = Response("start", 422, "", "", <<>>)
         /\ UNCHANGED <<status, msg, result_markdown, otp_event, otp_value, task,
                        fired, flow, njobs, writer, result_writer, otp_from, hist>>
    ELSE IF TaskActive
    THEN /\ resp' = Response("start", 409, "", "", <<>>)
         /\ UNCHANGED <<status, msg, result_markdown, otp_event, otp_value, task,
                        fired, flow, njobs, writer, result_writer, otp_from, hist>>
    ELSE /\ njobs < MaxJobs
         /\ otp_event' = NewEvent(njobs + 1)
         /\ otp_value' = None
         /\ otp_from' = 0
         /\ result_markdown' = <<>>
         /\ result_writer' = 0
         /\ update("processing", MsgInit, 0)
         /\ njobs' = njobs + 1
         /\ task' = njobs + 1
         /\ flow' = [flow EXCEPT ![njobs + 1] = [NoFlow EXCEPT !.pc = "created"]]
         /\ resp' = Response("start", 200, status, msg, <<>>)
         /\ UNCHANGED <<fired, hist>>

\* POST /api/start
start_task(username, password) ==
    IF ~StartRequest(username, password)
    THEN /\ resp' = Response("start", 422, "", "", <<>>)
         /\ UNCHANGED <<status, msg, result_markdown, otp_event, otp_value, task,
                        fired, flow, njobs, writer, result_writer, otp_from, hist>>
    ELSE IF TaskActive
    THEN /\ resp' = Response("start", 409, "", "", <<>>)
         /\ UNCHANGED <<status, msg, result_markdown, otp_event, otp_value, task,
                        fired, flow, njobs, writer, result_writer, otp_from, hist>>
    ELSE /\ njobs < MaxJobs
         /\ otp_event' = NewEvent(njobs + 1)
         /\ otp_value' = None
         /\ otp_from' = 0
         /\ result_markdown' = <<>>
         /\ result_writer' = 0
         /\ update("processing", MsgInit, 0)
         /\ njobs' = njobs + 1
         /\ task' = njobs + 1
         /\ flow' = [flow EXCEPT ![njobs + 1] = [NoFlow EXCEPT !.pc = "created"]]
         /\ resp' = Response("start", 200, status', msg', <<>>)
         /\ UNCHANGED <<fired, hist>>

\* GET /api/status
get_status ==
    /\ resp' = Response("status", 200, status, msg, <<>>)
    /\ UNCHANGED <<status, msg, result_markdown, otp_event, otp_value, task, fired,
                   flow, njobs, writer, result_writer, otp_from, hist>>

\* POST /api/otp
submit_otp(otp) ==
    IF ~OtpRequest(otp)
    THEN /\ resp' = Response("otp", 422, "", "", <<>>)
         /\ UNCHANGED <<status, msg, result_markdown, otp_event, otp_value, task,
                        fired, flow, njobs, writer, result_writer, otp_from, hist>>
    ELSE IF ~OtpExpected
    THEN /\ resp' = Response("otp", 400, "", "", <<>>)
         /\ UNCHANGED <<status, msg, result_markdown, otp_event, otp_value, task,
                        fired, flow, njobs, writer, result_writer, otp_from, hist>>
    ELSE /\ otp_value' = otp
         /\ otp_from' = task
         /\ fired' = SetEvent(otp_event)
         /\ update("processing", MsgOtpReceived, 0)
         /\ resp' = Response("otp", 200, status', msg', <<>>)
         /\ hist' = [j \in Jobs |->
                       IF j = task
                       THEN [hist[j] EXCEPT
                               !.accepts = @ + 1,
                               !.accepted = IF flow[j].expired THEN "late" ELSE "in_time"]
                       ELSE hist[j]]
         /\ UNCHANGED <<result_markdown, otp_event, task, flow, njobs, result_writer>>

\* GET /api/result
get_result ==
    /\ resp' = IF ~ResultReady
               THEN Response("result", 404, "", "", <<>>)
               ELSE Response("result", 200, "", "", result_markdown)
    /\ UNCHANGED <<status, msg, result_markdown, otp_event, otp_value, task, fired,
                   flow, njobs, writer, result_writer, otp_from, hist>>

(***************************************************************************)
(* The background coroutine run_job, one action per stretch between        *)
(* awaits.  Positions (flow[j].pc):                                        *)
(*   created        task created by start_task, not yet run                *)
(*   login          browser launched, about to call login_and_enter_oa     *)
(*   login_nav      awaiting the login page and the passcode dialog        *)
(*   wait_otp       awaiting wait_for(otp_event.wait(), 60)                *)
(*   otp_fill       awaiting page.fill / page.click of the passcode        *)
(*   oa_nav         awaiting the OA entry page                             *)
(*   scrape_list    awaiting the rows of the notice list                   *)
(*   scrape_detail  awaiting one notice's detail page                      *)
(*   summarizing    awaiting simulate_ai_summary                           *)
(*   closing        awaiting context.close() / browser.close()             *)
(*   unwind         an exception is propagating through `async with`       *)
(*   finished       the coroutine has returned: task.done()                *)
(***************************************************************************)
At(j, pc) == flow[j].pc = pc

\* the frame of a coroutine that returned holds nothing any more
Finished == [NoFlow EXCEPT !.pc = "finished"]

Raising(j, exc) == [flow[j] EXCEPT !.pc = "unwind", !.exc = exc]

UnchangedByFlow == UNCHANGED <<otp_event, otp_value, task, fired, njobs, resp, otp_from>>

\* async_playwright(), chromium.launch, new_context, new_page
run_job_launch(j) ==
    /\ At(j, "created")
    /\ flow' = [flow EXCEPT ![j].pc = "login"]
    /\ UNCHANGED <<status, msg, writer, result_markdown, result_writer, hist>>
    /\ UnchangedByFlow

\* login_and_enter_oa up to its first await: the update, then the get_env calls
login_begin(j) ==
    /\ At(j, "login")
    /\ update("processing", MsgLogin, j)
    /\ \E env_set \in BOOLEAN :
          IF env_set
          THEN /\ flow' = [flow EXCEPT ![j].pc = "login_nav"]
               /\ UNCHANGED hist
          ELSE /\ flow' = [flow EXCEPT ![j] = Raising(j, ExcEnv)]
               /\ hist' = [hist EXCEPT ![j].raised = TRUE]
    /\ UNCHANGED <<result_markdown, result_writer>>
    /\ UnchangedByFlow

\* the passcode dialog appeared: update, then wait on the event state.otp_event names now
login_wait_otp(j) ==
    /\ At(j, "login_nav")
    /\ update("waiting_otp", MsgWaitingOtp, j)
    /\ flow' = [flow EXCEPT ![j].pc = "wait_otp", ![j].event = otp_event]
    /\ hist' = [hist EXCEPT ![j].waits = @ + 1]
    /\ UNCHANGED <<result_markdown, result_writer>>
    /\ UnchangedByFlow

\* The deadline of wait_for(..., timeout=60) passes with the event still unset: the
\* wait is lost.  The coroutine is only resumed in a later turn of the event loop,
\* and until then state.status stays "waiting_otp", so submit_otp can still run in
\* between.  (A set() made before the deadline always wins the wait: the wake-up of
\* the waiter is queued ahead of the timer, which wait_for then cancels.)
otp_deadline(j) ==
    /\ At(j, "wait_otp")
    /\ ~flow[j].expired
    /\ ~fired[flow[j].event]
    /\ flow' = [flow EXCEPT ![j].expired = TRUE]
    /\ UNCHANGED <<status, msg, writer, result_markdown, result_writer, hist>>
    /\ UnchangedByFlow

\* a slip: the resumed flow goes by event.is_set() and forgets that it timed out
WaitOutcome_ByEvent(j) == IF fired[flow[j].event] THEN "set" ELSE "timeout"

\* How wait_for ends when the coroutine is resumed: asyncio.TimeoutError once the
\* wait is lost, whatever submit_otp did since; the return of event.wait() otherwise.
WaitOutcome(j) == IF flow[j].expired THEN "timeout" ELSE "set"

\* wait_for returns or raises asyncio.TimeoutError
login_resume(j) ==
    /\ At(j, "wait_otp")
    /\ fired[flow[j].event] \/ flow[j].expired
    /\ IF WaitOutcome(j) = "timeout"
          THEN /\ update("error", MsgOtpTimeout, j)
               /\ flow' = [flow EXCEPT ![j] = Raising(j, ExcTimeout)]
               /\ hist' = [hist EXCEPT ![j].timed_out = TRUE]
          ELSE \* page.fill(otp_input_selector, state.otp_value or "")
               /\ flow' = [flow EXCEPT ![j].pc = "otp_fill"]
               /\ hist' = [hist EXCEPT ![j].otp_read = IF otp_value = None THEN ""
                                                       ELSE otp_value,
                                       ![j].otp_read_from = otp_from]
               /\ UNCHANGED <<status, msg, writer>>
    /\ UNCHANGED <<result_markdown, result_writer>>
    /\ UnchangedByFlow

\* the passcode was typed and sent
login_enter_oa(j) ==
    /\ At(j, "otp_fill")
    /\ update("processing", MsgEnterOA, j)
    /\ flow' = [flow EXCEPT ![j].pc = "oa_nav"]
    /\ UNCHANGED <<result_markdown, result_writer, hist>>
    /\ UnchangedByFlow

\* the OA page is ready: scrape_notices starts
scrape_begin(j) ==
    /\ At(j, "oa_nav")
    /\ update("processing", MsgScraping, j)
    /\ flow' = [flow EXCEPT ![j].pc = "scrape_list"]
    /\ UNCHANGED <<result_markdown, result_writer, hist>>
    /\ UnchangedByFlow

\* the first loop of scrape_notices: the rows kept as metadata; none is an error
scrape_list(j) ==
    /\ At(j, "scrape_list")
    /\ \E titles \in SeqsUpTo(Titles, MaxItems) :
          LET metadata == [i \in 1..Len(titles) |-> Record(titles[i])] IN
          IF metadata = <<>>
          THEN /\ flow' = [flow EXCEPT ![j] = Raising(j, ExcNoItems)]
               /\ hist' = [hist EXCEPT ![j].raised = TRUE]
          ELSE /\ flow' = [flow EXCEPT ![j].pc = "scrape_detail",
                                       ![j].metadata = metadata]
               /\ UNCHANGED hist
    /\ UNCHANGED <<status, msg, writer, result_markdown, result_writer>>
    /\ UnchangedByFlow

\* the second loop: one detail page read; after the last one scrape_notices returns
\* and run_job announces the summary before awaiting it
scrape_detail(j) ==
    /\ At(j, "scrape_detail")
    /\ Len(flow[j].items) < Len(flow[j].metadata)
    /\ LET items == Append(flow[j].items, flow[j].metadata[Len(flow[j].items) + 1]) IN
          IF Len(items) < Len(flow[j].metadata)
          THEN /\ update("processing", MsgRead(Len(items)), j)
               /\ flow' = [flow EXCEPT ![j].items = items]
          ELSE /\ update("processing", MsgSummarizing, j)
               /\ flow' = [flow EXCEPT ![j].items = items, ![j].pc = "summarizing"]
    /\ UNCHANGED <<result_markdown, result_writer, hist>>
    /\ UnchangedByFlow

\* a slip: the job is declared done and the summary is never stored
summary_done_NoStore(j) ==
    /\ At(j, "summarizing")
    /\ update("done", MsgDone, j)
    /\ flow' = [flow EXCEPT ![j].pc = "closing"]
    /\ hist' = [hist EXCEPT ![j].set_done = TRUE]
    /\ UNCHANGED <<result_markdown, result_writer>>
    /\ UnchangedByFlow

\* simulate_ai_summary returned: the result is stored and the job declared done
summary_done(j) ==
    /\ At(j, "summarizing")
    /\ result_markdown' = simulate_ai_summary(flow[j].items)
    /\ result_writer' = j
    /\ update("done", MsgDone, j)
    /\ flow' = [flow EXCEPT ![j].pc = "closing"]
    /\ hist' = [hist EXCEPT ![j].set_done = TRUE]
    /\ UnchangedByFlow

\* context.close(), browser.close() and the exit of `async with` succeed
run_job_close(j) ==
    /\ At(j, "closing")
    /\ flow' = [flow EXCEPT ![j] = Finished]
    /\ UNCHANGED <<status, msg, writer, result_markdown, result_writer, hist>>
    /\ UnchangedByFlow

\* the awaits of the login, scrape and browser stages that can raise
StagePcs == {"created", "login_nav", "otp_fill", "oa_nav", "scrape_list", "scrape_detail"}

\* an awaited browser call raises: a pipeline stage, or the closing of the browser
stage_raise(j) ==
    /\ flow[j].pc \in StagePcs \cup {"closing"}
    /\ IF At(j, "closing")
       THEN /\ flow' = [flow EXCEPT ![j] = Raising(j, ExcClose)]
            /\ UNCHANGED hist
       ELSE /\ flow' = [flow EXCEPT ![j] = Raising(j, ExcStage)]
            /\ hist' = [hist EXCEPT ![j].raised = TRUE]
    /\ UNCHANGED <<status, msg, writer, result_markdown, result_writer>>
    /\ UnchangedByFlow

\* a slip: run_job without its try/except, the exception ends the task unreported
run_job_except_Missing(j) ==
    /\ At(j, "unwind")
    /\ flow' = [flow EXCEPT ![j] = Finished]
    /\ UNCHANGED <<status, msg, writer, result_markdown, result_writer, hist>>
    /\ UnchangedByFlow

\* except Exception as exc: state.update("error", f"task failed: {exc}")
run_job_except(j) ==
    /\ At(j, "unwind")
    /\ update("error", MsgFailed(flow[j].exc), j)
    /\ flow' = [flow EXCEPT ![j] = Finished]
    /\ UNCHANGED <<result_markdown, result_writer, hist>>
    /\ UnchangedByFlow

run_job(j) ==
    \/ run_job_launch(j)
    \/ login_begin(j)
    \/ login_wait_otp(j)
    \/ otp_deadline(j)
    \/ login_resume(j)
    \/ login_enter_oa(j)
    \/ scrape_begin(j)
    \/ scrape_list(j)
    \/ scrape_detail(j)
    \/ summary_done(j)
    \/ run_job_close(j)
    \/ stage_raise(j)
    \/ run_job_except(j)

Next ==
    \/ \E username \in Usernames, password \in Passwords : start_task(username, password)
    \/ get_status
    \/ \E otp \in Otps : submit_otp(otp)
    \/ get_result
    \/ \E j \in Jobs : run_job(j)

Spec == Init /\ [][Next]_vars

\* The event loop runs every task that is ready: a coroutine whose await has
\* completed is resumed, and the timer of wait_for goes off while the wait is
\* pending.  Nothing forces a stage to raise or a request to arrive.
Progress(j) ==
    \/ run_job_launch(j)
    \/ otp_deadline(j)
    \/ login_begin(j)
    \/ login_wait_otp(j)
    \/ login_resume(j)
    \/ login_enter_oa(j)
    \/ scrape_begin(j)
    \/ scrape_list(j)
    \/ scrape_detail(j)
    \/ summary_done(j)
    \/ run_job_close(j)
    \/ run_job_except(j)

FairSpec == Spec /\ \A j \in Jobs : WF_vars(Progress(j))

(***************************************************************************)
(* Properties                                                              *)
(***************************************************************************)
\* the run_job coroutines that were created and have not returned
ActiveJobs == {j \in Jobs : flow[j].pc \notin {"none", "finished"}}

JobStateVars == <<status, msg, result_markdown, otp_event, fired, otp_value, task, flow>>

\* C1: at most one background job is active at any time, and a Start issued
\* while a job is active is answered 409 and leaves status, message, result, the
\* event, the stored passcode and the task handle as they were.
C1_SingleFlight ==
    [][ /\ Cardinality(ActiveJobs') <= 1
        /\ \A username \in Usernames, password \in Passwords :
              ( /\ StartRequest(username, password)
                /\ ActiveJobs # {}
                /\ start_task(username, password) )
              => (resp'.code = 409 /\ UNCHANGED JobStateVars) ]_vars

C1_Witness ==
    /\ resp.op = "start"
    /\ resp.code = 409
    /\ ActiveJobs = {1}
    /\ status = "waiting_otp"

\* C2: SubmitOtp is answered 200 exactly when the status is waiting_otp at the
\* call; in every other status it is answered 400 and changes neither status,
\* message, result, the stored passcode nor any event.
C2_SubmitOtpGuard ==
    [][ \A otp \in Otps :
          (OtpRequest(otp) /\ submit_otp(otp)) =>
             /\ (resp'.code = 200) <=> (status = "waiting_otp")
             /\ status # "waiting_otp" =>
                   /\ resp'.code = 400
                   /\ UNCHANGED <<status, msg, result_markdown, otp_value, fired>>
             /\ status = "waiting_otp" =>
                   /\ status' = "processing"
                   /\ otp_value' = otp
                   /\ fired'[otp_event] ]_vars

C2_Witness ==
    /\ resp.op = "otp"
    /\ resp.code = 400
    /\ status = "processing"
    /\ otp_value # None

\* C3: QueryResult is answered 200, with the stored result, exactly when the
\* status is done at the call; in every other status it is answered 404 and
\* carries no result text.
C3_QueryResultGuard ==
    [][ get_result =>
          /\ (resp'.code = 200) <=> (status = "done")
          /\ status = "done" => resp'.markdown = result_markdown
          /\ status # "done" => (resp'.code = 404 /\ resp'.markdown = <<>>) ]_vars

C3_Witness ==
    /\ resp.op = "result"
    /\ resp.code = 404
    /\ status = "error"
    /\ result_markdown # <<>>

\* C4 (as claimed): a Start issued in a state whose status is done or error
\* is accepted, and afterwards the status is processing and the result empty.
C4_StartFromTerminal ==
    [][ \A username \in Usernames, password \in Passwords :
          ( /\ StartRequest(username, password)
            /\ status \in {"done", "error"}
            /\ start_task(username, password) )
          => /\ resp'.code = 200
             /\ status' = "processing"
             /\ result_markdown' = <<>> ]_vars

\* C5 (as claimed): once the status is done or error it changes only by an
\* accepted Start; a job that has set done never sets error afterwards.
C5_TerminalIsFinal ==
    [][ (status \in {"done", "error"} /\ status' # status)
          => (njobs' = njobs + 1 /\ status' = "processing") ]_vars

\* C6: a job whose passcode was accepted before the deadline of its wait, and
\* none of whose stages raises, eventually sets the status done; and whenever the
\* status is done the stored result is not empty.
C6_InTimeOtpReachesDone ==
    /\ \A j \in Jobs :
          (hist[j].accepted = "in_time") ~> (hist[j].set_done \/ hist[j].raised)
    /\ [](\A j \in Jobs :
             (hist[j].set_done /\ writer = j /\ status = "done") => result_markdown # <<>>)

C6_Witness ==
    /\ hist[1].accepted = "in_time"
    /\ ~hist[1].raised
    /\ status = "done"
    /\ writer = 1
    /\ Len(result_markdown) > 4

\* C7: a job whose wait passes its deadline with no passcode submitted
\* eventually has finished with the status error; and every QueryResult made while
\* such a finished job is still the current one is answered 404.
C7_TimeoutReachesError ==
    /\ \A j \in Jobs :
          (At(j, "wait_otp") /\ flow[j].expired)
             ~> (At(j, "finished") /\ task = j /\ status = "error")
    /\ [][ (get_result /\ task \in Jobs /\ hist[task].timed_out /\ At(task, "finished"))
             => resp'.code = 404 ]_vars

C7_Witness ==
    /\ task = 1
    /\ hist[1].timed_out
    /\ hist[1].accepted = "no"
    /\ At(1, "finished")
    /\ status = "error"
    /\ resp.op = "result"
    /\ resp.code = 404

\* the job that owns the current event has set done or error
OwnerTerminal ==
    /\ task \in Jobs
    /\ hist[task].set_done \/ hist[task].timed_out \/ At(task, "finished")

\* C8: a SubmitOtp made after the job owning the event has set done or error
\* is answered 400 and stores nothing; every accepted Start installs a new, unset
\* event and no stored passcode; and the passcode a job's flow reads was stored
\* while that job was the current one.
C8_NoStalePasscode ==
    [][ /\ \A otp \in Otps :
              (OtpRequest(otp) /\ OwnerTerminal /\ submit_otp(otp))
                 => (resp'.code = 400 /\ UNCHANGED <<otp_value, fired>>)
        /\ njobs' = njobs + 1 =>
              /\ otp_event' # otp_event
              /\ ~fired'[otp_event']
              /\ otp_value' = None
        /\ \A j \in Jobs :
              hist'[j].otp_read # hist[j].otp_read =>
                 (hist'[j].otp_read_from = j /\ hist'[j].otp_read \in Otps) ]_vars

C8_Witness ==
    /\ task = 2
    /\ hist[1].otp_read = "1234"
    /\ hist[2].otp_read = "123456789012"
    /\ hist[2].set_done
    /\ resp.op = "otp"
    /\ resp.code = 400

\* C9: after an accepted Start, every update() and every stored result comes
\* from a request handler or from the flow of the job that Start created: no
\* earlier job's flow is still running.
C9_NoWriteFromEarlierJob ==
    /\ writer \in {0, task}
    /\ result_writer \in {0, task}
    /\ \A j \in Jobs : j # task => flow[j].pc \in {"none", "finished"}

C9_Witness ==
    /\ task = 2
    /\ writer = 2
    /\ result_writer = 2
    /\ hist[1].set_done

\* C10 (as claimed): once a job whose wait timed out has finished, the status
\* and message it leaves are error and the passcode-timeout message.
C10_TimeoutMessageStays ==
    \A j \in Jobs :
       (task = j /\ At(j, "finished") /\ hist[j].timed_out)
          => (status = "error" /\ msg = MsgOtpTimeout)

\* C11: whenever a task exists and is done, the status is done or error: a
\* flow that ended by an exception has reported error, and no finished job leaves
\* the status at processing or waiting_otp.
C11_FinishedIsTerminal ==
    /\ (task # 0 /\ At(task, "finished")) => status \in {"done", "error"}
    /\ \A j \in Jobs :
          (At(j, "finished") /\ task = j /\ (hist[j].raised \/ hist[j].timed_out))
             => status = "error"

C11_Witness ==
    /\ task = 1
    /\ At(1, "finished")
    /\ hist[1].raised
    /\ ~hist[1].timed_out
    /\ status = "error"
    /\ msg = MsgFailed(ExcStage)

\* C12: whenever the status is done, the stored result was stored by the
\* current job and is not empty; it is the summary of that job's items, stored in
\* the step that sets done, and it stays as it is while the status is done.
C12_DoneHasOwnResult ==
    [][ /\ status' = "done" =>
              /\ result_markdown' # <<>>
              /\ result_writer' = task'
              /\ writer' = task'
        /\ (status # "done" /\ status' = "done") =>
              /\ task' = task
              /\ At(task, "summarizing")
              /\ result_markdown' = simulate_ai_summary(flow[task].items)
              /\ flow[task].items = flow[task].metadata
        /\ (status = "done" /\ status' = "done") =>
              result_markdown' = result_markdown ]_vars

C12_Witness ==
    /\ task = 2
    /\ status = "done"
    /\ hist[1].set_done
    /\ result_writer = 2
    /\ result_markdown = simulate_ai_summary(<<Record("talk")>>)

\* the (status, message) pairs of TaskState() and of the update calls of the source
UpdatePairs ==
    {<<"idle", MsgIdle>>, <<"processing", MsgInit>>, <<"processing", MsgOtpReceived>>,
     <<"processing", MsgLogin>>, <<"waiting_otp", MsgWaitingOtp>>,
     <<"error", MsgOtpTimeout>>, <<"processing", MsgEnterOA>>,
     <<"processing", MsgScraping>>, <<"processing", MsgSummarizing>>,
     <<"done", MsgDone>>}
    \cup {<<"processing", MsgRead(n)>> : n \in 1..MaxItems}
    \cup {<<"error", MsgFailed(exc)>> :
             exc \in {ExcTimeout, ExcEnv, ExcStage, ExcNoItems, ExcClose}}

\* C13: QueryStatus is always answered 200, with the status and message of
\* the state it runs in, and that pair is one a single update call wrote: at no
\* point of any interleaving is the status of one update stored with the message
\* of another.
C13_NoTornSnapshot ==
    [][ /\ <<status', msg'>> \in UpdatePairs
        /\ get_status =>
              /\ resp'.code = 200
              /\ resp'.status = status
              /\ resp'.msg = msg
              /\ <<resp'.status, resp'.msg>> \in UpdatePairs ]_vars

C13_Witness ==
    /\ resp.op = "status"
    /\ resp.code = 200
    /\ resp.status = "error"
    /\ resp.msg = MsgOtpTimeout
    /\ status = "error"
    /\ msg = MsgFailed(ExcTimeout)

\* text t occurs in text s
Contains(s, t) ==
    \E i \in 1..(Len(s) - Len(t) + 1) : SubSeq(s, i, i + Len(t) - 1) = t

\* C14: when a job has stored its result and set done, the result contains
\* the title of every record the scraper returned for that job, and there is at
\* least one such record.
C14_ResultHasEveryTitle ==
    \A j \in Jobs :
       (At(j, "closing") /\ result_writer = j) =>
          /\ Len(flow[j].items) >= 1
          /\ flow[j].items = flow[j].metadata
          /\ \A i \in 1..Len(flow[j].items) :
                \E k \in 1..Len(result_markdown) :
                   Contains(result_markdown[k], flow[j].items[i].title)

C14_Witness ==
    /\ At(1, "closing")
    /\ status = "done"
    /\ result_writer = 1
    /\ Len(flow[1].items) = 2
    /\ flow[1].items[1].title = "talk"
    /\ flow[1].items[2].title = "exam"

\* C15: an accepted Start returns before any step of the flow it created has
\* run, no other flow moves in that step, and the snapshot it returns has the
\* status processing; no later step of a job changes the response Start gave.
C15_StartReturnsAtOnce ==
    [][ /\ njobs' = njobs + 1 =>
              /\ resp'.op = "start"
              /\ resp'.code = 200
              /\ resp'.status = "processing"
              /\ resp'.msg = MsgInit
              /\ flow'[task'].pc = "created"
              /\ \A j \in Jobs : j # task' => flow'[j] = flow[j]
        /\ (resp'.op = "start" /\ resp'.code = 200) => resp'.status = "processing"
        /\ (\E j \in Jobs : run_job(j)) => resp' = resp ]_vars

C15_Witness ==
    /\ resp.op = "start"
    /\ resp.code = 200
    /\ resp.status = "processing"
    /\ task = 2
    /\ At(2, "finished")
    /\ status = "error"

AllButResp == <<status, msg, result_markdown, otp_event, otp_value, task, fired, flow,
                njobs, writer, result_writer, otp_from, hist>>

\* C16: a Start with an empty username or password, and a SubmitOtp with a
\* passcode of fewer than 4 or more than 12 characters, is answered with the
\* validation error 422 and changes nothing of the job state, the events or the
\* flows, whatever the status.
C16_ValidationFirst ==
    [][ /\ \A username \in Usernames, password \in Passwords :
              ((username = "" \/ password = "") /\ start_task(username, password))
                 => (resp'.code = 422 /\ UNCHANGED AllButResp)
        /\ \A otp \in Otps :
              ((Len(otp) < 4 \/ Len(otp) > 12) /\ submit_otp(otp))
                 => (resp'.code = 422 /\ UNCHANGED AllButResp) ]_vars

C16_Witness ==
    /\ resp.op = "otp"
    /\ resp.code = 422
    /\ status = "waiting_otp"
    /\ otp_value = None

\* C17: a job sets waiting_otp at most once and has at most one SubmitOtp
\* accepted; once one was accepted the status is no longer waiting_otp while that
\* job is the current one, so a further SubmitOtp is refused.
C17_OneWaitOneAccept ==
    \A j \in Jobs :
       /\ hist[j].waits <= 1
       /\ hist[j].accepts <= 1
       /\ hist[j].accepts <= hist[j].waits
       /\ (task = j /\ hist[j].accepts = 1) => ~OtpExpected

C17_Witness ==
    /\ task = 1
    /\ hist[1].waits = 1
    /\ hist[1].accepts = 1
    /\ At(1, "otp_fill")
    /\ resp.op = "otp"
    /\ resp.code = 400

\* C18 (as claimed): a job for which a SubmitOtp was accepted never ends its
\* wait with the passcode timeout.
C18_AcceptedNeverTimesOut ==
    \A j \in Jobs : hist[j].accepts >= 1 => ~hist[j].timed_out

\* C19: whenever the status is waiting_otp, the current task is active and
\* waiting on the current event, that event is the one its Start created and is
\* unset, and no passcode is stored.
C19_WaitingOtpShape ==
    status = "waiting_otp" =>
       /\ task \in Jobs
       /\ At(task, "wait_otp")
       /\ ActiveJobs = {task}
       /\ otp_event = task
       /\ flow[task].event = otp_event
       /\ ~fired[otp_event]
       /\ otp_value = None
       /\ hist[task].accepts = 0

C19_Witness ==
    /\ status = "waiting_otp"
    /\ task = 2
    /\ otp_event = 2
    /\ fired[1]
    /\ hist[1].otp_read = "1234"

====
